---- MODULE Spec2Model ----
(***************************************************************************)
(* Authentication / authorization layer of the FastAPI project backend:    *)
(* password policy and hashing (app/auth.py), token issue and verify       *)
(* (app/auth.py), the role gates (app/auth.py) and the route handlers that *)
(* consume them (app/main.py).                                             *)
(*                                                                         *)
(* Storage is the external relational database: a table is a set of rows.  *)
(* The clock is in minutes.  A handler runs as one atomic step.            *)
(***************************************************************************)
EXTENDS Integers, Sequences, FiniteSets, TLC

VARIABLES users, nextUserId, projects, nextProjectId, secret, now, bearer, last

vars == <<users, nextUserId, projects, nextProjectId, secret, now, bearer, last>>

(***************************************************************************)
(* Bounds of the model.                                                    *)
(***************************************************************************)
MaxUsers == 3         \* user ids handed out by the sequence
MaxProjects == 1      \* project ids handed out by the sequence
MaxTime == 45         \* last clock value explored
ClockStep == 20       \* minutes the clock advances per Tick
MaxSecret == 2        \* secrets the process is started with, one after another

(***************************************************************************)
(* Configuration, auth.py lines 15-17.                                     *)
(***************************************************************************)
ALGORITHM == "HS256"
ACCESS_TOKEN_EXPIRE_MINUTES == 30
\* a signing key that is never the process secret
AttackerKey == MaxSecret + 1

(***************************************************************************)
(* Passwords are sequences of characters.                                  *)
(***************************************************************************)
Lower == {"a","b","c","d","e","f","g","h","i","j","k","l","m",
          "n","o","p","q","r","s","t","u","v","w","x","y","z"}
Upper == {"A","B","C","D","E","F","G","H","I","J","K","L","M",
          "N","O","P","Q","R","S","T","U","V","W","X","Y","Z"}
\* \d on a str pattern: the decimal digits (ASCII ones are the ones typed here)
Digit == {"0","1","2","3","4","5","6","7","8","9"}
\* the character class of auth.py line 35
Special == {"!","@","#","$","%","^","&","*","(",")","_","+","-","=","[","]",
            "{","}",";","'",":","\"","\\","|",",",".","<",">","/","?"}

\* re.search(class, password) is not None
Search(class, password) == \E i \in 1..Len(password) : password[i] \in class

\* the policy with the uppercase test lost from line 27
validate_without_uppercase(password) ==
    IF Len(password) < 8 THEN FALSE
    ELSE IF ~Search(Lower, password) THEN FALSE
    ELSE IF ~Search(Digit, password) THEN FALSE
    ELSE IF ~Search(Special, password) THEN FALSE
    ELSE TRUE

validate_password_strength(password) ==
    IF Len(password) < 8 THEN FALSE
    ELSE IF ~Search(Lower, password) \/ ~Search(Upper, password) THEN FALSE
    ELSE IF ~Search(Digit, password) THEN FALSE
    ELSE IF ~Search(Special, password) THEN FALSE
    ELSE TRUE

(***************************************************************************)
(* Password inputs: the examples of the documentation and one password per *)
(* way of failing a condition.                                             *)
(***************************************************************************)
PwShort == <<"s","h","o","r","t","1","!">>  \* 7 characters
PwNoNumber == <<"N","o","N","u","m","b","e","r","!">>  \* no digit
PwNoUpperNoSpecial == <<"n","o","n","u","m","b","e","r","1">>  \* no uppercase, no special character
PwValid == <<"V","a","l","i","d","1","P","a","s","s","!">>  \* meets every condition
PwEight == <<"A","a","1","!","a","a","a","a">>  \* meets every condition, exactly 8 characters
PwSeven == <<"A","a","1","!","a","a","a">>  \* every class present, 7 characters
PwNoLower == <<"V","A","L","I","D","1","P","A","S","S","!">>  \* no lowercase
PwNoUpper == <<"v","a","l","i","d","1","p","a","s","s","!">>  \* no uppercase
PwNoSpecial == <<"V","a","l","i","d","1","P","a","s","s">>  \* no special character
PwOtherSymbol == <<"V","a","l","i","d","1","P","a","s","s","~">>  \* ~ is not in the special set
PwSpace == <<"V","a","l","i","d","1"," ","P","a","s","s">>  \* a blank is not in the special set
PwLong == <<"V","a","l","i","d","1","P","a","s","s","!","V","a","l","i","d","1","P","a","s","s","!","V","a","l","i","d","1","P","a","s","s","!">>  \* 33 characters
PwEmpty == << >>

PasswordInputs ==
    {PwShort, PwNoNumber, PwNoUpperNoSpecial, PwValid, PwEight, PwSeven, PwNoLower, PwNoUpper, PwNoSpecial, PwOtherSymbol, PwSpace, PwLong, PwEmpty}

(***************************************************************************)
(* passlib CryptContext(schemes=["bcrypt"]): a hash embeds its salt; the   *)
(* digest is a one-way function of salt and password, kept symbolic.       *)
(***************************************************************************)
Salts == {1, 2}
Bcrypt(salt, password) == [salt |-> salt, of |-> password]
\* a stored value that no scheme of the context identifies
MalformedHash == [scheme |-> "unknown", salt |-> 0, digest |-> Bcrypt(0, PwEmpty)]

\* hash_password with the salt the library drew
hash_password(password, salt) ==
    [scheme |-> "bcrypt", salt |-> salt, digest |-> Bcrypt(salt, password)]

\* verify_password: pwd_context.verify raises on a hash it cannot identify;
\* nothing in verify_password catches it.  Result: "true", "false" or "raise".
verify_password(plain_password, hashed_password) ==
    IF hashed_password.scheme # "bcrypt" THEN "raise"
    ELSE IF Bcrypt(hashed_password.salt, plain_password) = hashed_password.digest
         THEN "true" ELSE "false"

(***************************************************************************)
(* Tokens.  A claim set is a function from claim names to values.  A token *)
(* is header.claims.signature; the signature is a keyed one-way function   *)
(* of header and claims, kept symbolic.                                    *)
(***************************************************************************)
Sign(key, alg, payload) == [key |-> key, alg |-> alg, payload |-> payload]

\* to_encode.update({"exp": expire}) on a copy of data
WithExp(data, expire) ==
    [k \in (DOMAIN data) \cup {"exp"} |-> IF k = "exp" THEN expire ELSE data[k]]

\* Optional[timedelta]: None is [given |-> FALSE]
NoDelta == [given |-> FALSE, minutes |-> 0]
Delta(m) == [given |-> TRUE, minutes |-> m]

\* `expires_delta or timedelta(minutes=30)`: None and a zero timedelta are falsy
Expire(expires_delta) ==
    now + (IF expires_delta.given /\ expires_delta.minutes # 0
           THEN expires_delta.minutes
           ELSE ACCESS_TOKEN_EXPIRE_MINUTES)

\* create_access_token with line 47 writing into the caller's dict (no copy)
create_access_token_in_place(data, expires_delta) ==
    LET to_encode == WithExp(data, Expire(expires_delta))
    IN  [token |-> [fmt |-> "jwt", alg |-> ALGORITHM, payload |-> to_encode,
                    sig |-> Sign(secret, ALGORITHM, to_encode)],
         data  |-> to_encode]

\* create_access_token: the token, and the caller's dict after the call
create_access_token(data, expires_delta) ==
    LET to_encode == WithExp(data, Expire(expires_delta))
    IN  [token |-> [fmt |-> "jwt", alg |-> ALGORITHM, payload |-> to_encode,
                    sig |-> Sign(secret, ALGORITHM, to_encode)],
         data  |-> data]

\* the None that decode_access_token returns
None == [none |-> TRUE]

\* decode_access_token reading the claims without verifying the signature
decode_unverified(token) ==
    IF token.fmt # "jwt" THEN [none |-> TRUE]
    ELSE IF "exp" \in DOMAIN token.payload /\ token.payload.exp < now THEN [none |-> TRUE]
    ELSE token.payload

\* decode_access_token: jwt.decode raises JWTError on a string that is not
\* three segments, on an algorithm other than the configured one, on a
\* signature that does not verify under SECRET_KEY, and on an "exp" claim
\* that lies before the current time; it requires no claim to be present.
decode_access_token(token) ==
    IF token.fmt # "jwt" THEN None
    ELSE IF token.alg # ALGORITHM THEN None
    ELSE IF token.sig # Sign(secret, token.alg, token.payload) THEN None
    ELSE IF "exp" \in DOMAIN token.payload /\ token.payload.exp < now THEN None
    ELSE token.payload

(***************************************************************************)
(* Rows and the dependency chain get_current_user -> require_admin /       *)
(* require_user.  A dependency either yields the user or raises; a raise   *)
(* in get_current_user means the body of the gate is never entered.        *)
(***************************************************************************)
NoUser == [id |-> 0, username |-> "", password |-> MalformedHash, role |-> ""]

\* an HTTPException raised by a dependency; user is the row it had in hand
Raised(code, user, checked) ==
    [ok |-> FALSE, status |-> code, user |-> user, roleChecked |-> checked]

\* session.exec(select(User).where(User.id == user_id)).first(): user_id is the
\* "sub" string, which the database compares with the integer key column
FindUserById(user_id) == {u \in users : ToString(u.id) = user_id}

\* get_current_user trusting the claims of a verified token, lines 76-78 lost
get_current_user_from_claims(token) ==
    LET payload == decode_access_token(token) IN
    IF payload = None THEN Raised(401, NoUser, FALSE)
    ELSE IF "sub" \notin DOMAIN payload THEN Raised(401, NoUser, FALSE)
    ELSE LET found == FindUserById(payload.sub) IN
         [ok |-> TRUE, status |-> 200,
          user |-> IF found = {} THEN NoUser ELSE CHOOSE u \in found : TRUE,
          roleChecked |-> FALSE]

get_current_user(token) ==
    LET payload == decode_access_token(token) IN
    IF payload = None THEN Raised(401, NoUser, FALSE)
    ELSE IF "sub" \notin DOMAIN payload THEN Raised(401, NoUser, FALSE)
    ELSE LET found == FindUserById(payload.sub) IN
         IF found = {} THEN Raised(401, NoUser, FALSE)
         ELSE [ok |-> TRUE, status |-> 200, user |-> CHOOSE u \in found : TRUE,
               roleChecked |-> FALSE]

\* require_admin with the test of require_user
require_admin_or_user(token) ==
    LET dep == get_current_user(token) IN
    IF ~dep.ok THEN dep
    ELSE IF dep.user.role \notin {"admin", "user"} THEN Raised(403, dep.user, TRUE)
    ELSE [dep EXCEPT !.roleChecked = TRUE]

\* require_admin reading the role claim of the token instead of the stored row
require_admin_by_claim(token) ==
    LET dep == get_current_user(token) IN
    IF ~dep.ok THEN dep
    ELSE IF "role" \notin DOMAIN token.payload \/ token.payload.role # "admin"
         THEN Raised(403, dep.user, TRUE)
    ELSE [dep EXCEPT !.roleChecked = TRUE]

require_admin(token) ==
    LET dep == get_current_user(token) IN
    IF ~dep.ok THEN dep
    ELSE IF dep.user.role # "admin" THEN Raised(403, dep.user, TRUE)
    ELSE [dep EXCEPT !.roleChecked = TRUE]

require_user(token) ==
    LET dep == get_current_user(token) IN
    IF ~dep.ok THEN dep
    ELSE IF dep.user.role \notin {"admin", "user"} THEN Raised(403, dep.user, TRUE)
    ELSE [dep EXCEPT !.roleChecked = TRUE]

(***************************************************************************)
(* What a client can present as a bearer token: the token it holds, a      *)
(* string that is no token, and tokens an attacker derives from it without *)
(* knowing the secret.                                                     *)
(***************************************************************************)
Garbage ==
    [fmt |-> "garbage", alg |-> "", payload |-> [exp |-> 0],
     sig |-> Sign(AttackerKey, "", [exp |-> 0])]
\* claims edited to a later expiry, signature kept
Tamper(t) ==
    [t EXCEPT !.payload = WithExp(t.payload, MaxTime + ACCESS_TOKEN_EXPIRE_MINUTES)]
\* the same claims signed with the attacker's own key
Forge(t) == [t EXCEPT !.sig = Sign(AttackerKey, t.alg, t.payload)]
\* header rewritten to the unsigned algorithm
Unsigned(t) == [t EXCEPT !.alg = "none", !.sig = Sign(AttackerKey, "none", t.payload)]
ForgedAdmin ==
    LET claims == [sub |-> "1", role |-> "admin", exp |-> MaxTime + ACCESS_TOKEN_EXPIRE_MINUTES]
    IN  [fmt |-> "jwt", alg |-> ALGORITHM, payload |-> claims,
         sig |-> Sign(AttackerKey, ALGORITHM, claims)]

Presentable == {bearer, Garbage, Tamper(bearer), Forge(bearer)}
PresentableAuth == Presentable \cup {Unsigned(bearer), ForgedAdmin}

(***************************************************************************)
(* The response of the last step, with the request that produced it.       *)
(***************************************************************************)
Blank ==
    [op |-> "none", status |-> 0, detail |-> "", token |-> Garbage,
     roleChecked |-> FALSE, user |-> NoUser,
     username |-> "", password |-> PwEmpty, role |-> "", pid |-> 0,
     body |-> Garbage, delta |-> NoDelta, given |-> None, after |-> None]

\* the response of a protected route whose dependency is dep
Protected(op, token, dep, status, detail, pid) ==
    [Blank EXCEPT !.op = op, !.token = token, !.status = status, !.detail = detail,
                  !.roleChecked = dep.roleChecked, !.user = dep.user, !.pid = pid]

Usernames == {"alice", "bob"}
Roles == {"admin", "user"}
\* name and description of a ProjectCreate body
ProjectInputs == {<<"", "d1">>, <<"n1", "">>, <<"n1", "d1">>, <<"n2", "d1">>}
ProjectIds == 1..(MaxProjects + 1)

(***************************************************************************)
(* POST /register, main.py lines 26-63.                                    *)
(***************************************************************************)
register(username, password, role, salt) ==
    /\ IF username = "" \/ password = PwEmpty \/ role = ""
       THEN /\ last' = [Blank EXCEPT !.op = "register", !.status = 422, !.detail = "missing",
                           !.username = username, !.password = password, !.role = role]
            /\ UNCHANGED <<users, nextUserId>>
       ELSE IF role \notin {"admin", "user"}
       THEN /\ last' = [Blank EXCEPT !.op = "register", !.status = 406, !.detail = "role",
                           !.username = username, !.password = password, !.role = role]
            /\ UNCHANGED <<users, nextUserId>>
       ELSE IF ~validate_password_strength(password)
       THEN /\ last' = [Blank EXCEPT !.op = "register", !.status = 422, !.detail = "weak",
                           !.username = username, !.password = password, !.role = role]
            /\ UNCHANGED <<users, nextUserId>>
       ELSE IF \E u \in users : u.username = username
       THEN /\ last' = [Blank EXCEPT !.op = "register", !.status = 400, !.detail = "exists",
                           !.username = username, !.password = password, !.role = role]
            /\ UNCHANGED <<users, nextUserId>>
       ELSE LET db_user == [id |-> nextUserId, username |-> username,
                            password |-> hash_password(password, salt), role |-> role]
            IN  /\ nextUserId <= MaxUsers
                /\ users' = users \cup {db_user}
                /\ nextUserId' = nextUserId + 1
                /\ last' = [Blank EXCEPT !.op = "register", !.status = 201, !.user = db_user,
                               !.username = username, !.password = password, !.role = role]
    /\ UNCHANGED <<projects, nextProjectId, secret, now, bearer>>

(***************************************************************************)
(* POST /login, main.py lines 72-90.  The client keeps the token it gets   *)
(* or goes on with the one it has.                                         *)
(***************************************************************************)
login(username, password, keep) ==
    LET found == {u \in users : u.username = username}
        user == CHOOSE u \in found : TRUE
        verified == verify_password(password, user.password)
        issued == create_access_token([sub |-> ToString(user.id), role |-> user.role], NoDelta)
        req == [Blank EXCEPT !.op = "login", !.username = username, !.password = password]
    IN
    /\ IF username = "" \/ password = PwEmpty
       THEN last' = [req EXCEPT !.status = 422, !.detail = "missing"] /\ UNCHANGED bearer
       ELSE IF found = {}
       THEN last' = [req EXCEPT !.status = 401, !.detail = "invalid"] /\ UNCHANGED bearer
       ELSE IF verified = "raise"
       THEN last' = [req EXCEPT !.status = 500, !.detail = "failed"] /\ UNCHANGED bearer
       ELSE IF verified = "false"
       THEN last' = [req EXCEPT !.status = 401, !.detail = "invalid"] /\ UNCHANGED bearer
       ELSE /\ last' = [req EXCEPT !.status = 200, !.user = user, !.body = issued.token]
            /\ bearer' = IF keep THEN issued.token ELSE bearer
    /\ UNCHANGED <<users, nextUserId, projects, nextProjectId, secret, now>>

(***************************************************************************)
(* The project routes, main.py lines 93-197.  The dependency runs before   *)
(* the body of the handler.                                                *)
(***************************************************************************)
\* session.get(Project, project_id)
GetProjectRow(project_id) == {p \in projects : p.id = project_id}

get_projects(token) ==
    LET dep == get_current_user(token) IN
    /\ last' = IF ~dep.ok THEN Protected("get_projects", token, dep, dep.status, "", 0)
               ELSE Protected("get_projects", token, dep, 200, "", 0)
    /\ UNCHANGED <<users, nextUserId, projects, nextProjectId, secret, now, bearer>>

\* create_project depending on get_current_user, as the read routes do
create_project_any_user(token, name, description) ==
    LET dep == get_current_user(token) IN
    /\ IF ~dep.ok
       THEN /\ last' = Protected("create_project", token, dep, dep.status, "", 0)
            /\ UNCHANGED <<projects, nextProjectId>>
       ELSE IF name = "" \/ description = ""
       THEN /\ last' = Protected("create_project", token, dep, 422, "missing", 0)
            /\ UNCHANGED <<projects, nextProjectId>>
       ELSE LET db_project == [id |-> nextProjectId, name |-> name,
                               description |-> description, user_id |-> dep.user.id]
            IN  /\ nextProjectId <= MaxProjects
                /\ projects' = projects \cup {db_project}
                /\ nextProjectId' = nextProjectId + 1
                /\ last' = Protected("create_project", token, dep, 201, "", db_project.id)
    /\ UNCHANGED <<users, nextUserId, secret, now, bearer>>

create_project(token, name, description) ==
    LET dep == require_admin(token) IN
    /\ IF ~dep.ok
       THEN /\ last' = Protected("create_project", token, dep, dep.status, "", 0)
            /\ UNCHANGED <<projects, nextProjectId>>
       ELSE IF name = "" \/ description = ""
       THEN /\ last' = Protected("create_project", token, dep, 422, "missing", 0)
            /\ UNCHANGED <<projects, nextProjectId>>
       ELSE LET db_project == [id |-> nextProjectId, name |-> name,
                               description |-> description, user_id |-> dep.user.id]
            IN  /\ nextProjectId <= MaxProjects
                /\ projects' = projects \cup {db_project}
                /\ nextProjectId' = nextProjectId + 1
                /\ last' = Protected("create_project", token, dep, 201, "", db_project.id)
    /\ UNCHANGED <<users, nextUserId, secret, now, bearer>>

get_project(token, project_id) ==
    LET dep == get_current_user(token) IN
    /\ last' = IF ~dep.ok THEN Protected("get_project", token, dep, dep.status, "", project_id)
               ELSE IF GetProjectRow(project_id) = {}
               THEN Protected("get_project", token, dep, 404, "not found", project_id)
               ELSE Protected("get_project", token, dep, 200, "", project_id)
    /\ UNCHANGED <<users, nextUserId, projects, nextProjectId, secret, now, bearer>>

update_project(token, project_id, name, description) ==
    LET dep == require_admin(token)
        found == GetProjectRow(project_id)
        db_project == CHOOSE p \in found : TRUE
    IN
    /\ IF ~dep.ok
       THEN /\ last' = Protected("update_project", token, dep, dep.status, "", project_id)
            /\ UNCHANGED projects
       ELSE IF name = "" \/ description = ""
       THEN /\ last' = Protected("update_project", token, dep, 422, "missing", project_id)
            /\ UNCHANGED projects
       ELSE IF found = {}
       THEN /\ last' = Protected("update_project", token, dep, 404, "not found", project_id)
            /\ UNCHANGED projects
       ELSE /\ projects' = (projects \ {db_project}) \cup
                           {[db_project EXCEPT !.name = name, !.description = description]}
            /\ last' = Protected("update_project", token, dep, 200, "", project_id)
    /\ UNCHANGED <<users, nextUserId, nextProjectId, secret, now, bearer>>

delete_project(token, project_id) ==
    LET dep == require_admin(token)
        found == GetProjectRow(project_id)
    IN
    /\ IF ~dep.ok
       THEN /\ last' = Protected("delete_project", token, dep, dep.status, "", project_id)
            /\ UNCHANGED projects
       ELSE IF found = {}
       THEN /\ last' = Protected("delete_project", token, dep, 404, "not found", project_id)
            /\ UNCHANGED projects
       ELSE /\ projects' = projects \ found
            /\ last' = Protected("delete_project", token, dep, 204, "", project_id)
    /\ UNCHANGED <<users, nextUserId, nextProjectId, secret, now, bearer>>

(***************************************************************************)
(* A direct call of create_access_token, auth.py lines 46-51, with a claim *)
(* set and a time-to-live of the caller's choosing.                        *)
(***************************************************************************)
issue(data, expires_delta) ==
    LET issued == create_access_token(data, expires_delta) IN
    /\ bearer' = issued.token
    /\ last' = [Blank EXCEPT !.op = "issue", !.status = 200, !.body = issued.token,
                             !.delta = expires_delta, !.given = data, !.after = issued.data]
    /\ UNCHANGED <<users, nextUserId, projects, nextProjectId, secret, now>>

(***************************************************************************)
(* The environment: wall-clock time, a restart of the process with a new   *)
(* SECRET_KEY, and changes made to the users table in the database.        *)
(***************************************************************************)
Tick ==
    /\ now + ClockStep <= MaxTime
    /\ now' = now + ClockStep
    /\ last' = [Blank EXCEPT !.op = "tick"]
    /\ UNCHANGED <<users, nextUserId, projects, nextProjectId, secret, bearer>>

RotateSecret ==
    /\ secret < MaxSecret
    /\ secret' = secret + 1
    /\ last' = [Blank EXCEPT !.op = "rotate"]
    /\ UNCHANGED <<users, nextUserId, projects, nextProjectId, now, bearer>>

StorageSetRole(u, role) ==
    /\ u \in users
    /\ u.role # role
    /\ users' = (users \ {u}) \cup {[u EXCEPT !.role = role]}
    /\ last' = [Blank EXCEPT !.op = "set_role"]
    /\ UNCHANGED <<nextUserId, projects, nextProjectId, secret, now, bearer>>

\* a user who owns no project can be deleted whatever the foreign-key policy
StorageDeleteUser(u) ==
    /\ u \in users
    /\ \A p \in projects : p.user_id # u.id
    /\ users' = users \ {u}
    /\ last' = [Blank EXCEPT !.op = "delete_user"]
    /\ UNCHANGED <<nextUserId, projects, nextProjectId, secret, now, bearer>>

\* a stored password that is not a hash of the configured scheme
StorageSetPassword(u) ==
    /\ u \in users
    /\ u.password # MalformedHash
    /\ users' = (users \ {u}) \cup {[u EXCEPT !.password = MalformedHash]}
    /\ last' = [Blank EXCEPT !.op = "set_password"]
    /\ UNCHANGED <<nextUserId, projects, nextProjectId, secret, now, bearer>>

(***************************************************************************)
(* Inputs of the requests.                                                 *)
(***************************************************************************)
UsernameInputs == Usernames \cup {""}
RoleInputs == Roles \cup {"guest", ""}
LoginPasswords == {PwValid, PwEight, PwEmpty}
\* claim sets a caller may pass to create_access_token
DataInputs == {[role |-> "admin"], [sub |-> "1"]}
DeltaInputs == {NoDelta, Delta(0), Delta(ClockStep)}

\* rows the users table holds when the process starts against a database in use
SeedUsers ==
    {[id |-> 1, username |-> "alice", password |-> hash_password(PwValid, 1), role |-> "admin"],
     [id |-> 2, username |-> "bob", password |-> hash_password(PwEight, 2), role |-> "user"]}

Start(rows) ==
    /\ users = rows
    /\ nextUserId = Cardinality(rows) + 1
    /\ projects = {}
    /\ nextProjectId = 1
    /\ secret = 1
    /\ now = 0
    /\ bearer = Garbage
    /\ last = Blank

GetProjects == \E token \in Presentable : get_projects(token)

CreateProject ==
    \E token \in Presentable, project \in ProjectInputs :
        create_project(token, project[1], project[2])

GetProject == \E token \in Presentable, project_id \in ProjectIds : get_project(token, project_id)

UpdateProject ==
    \E token \in Presentable, project_id \in ProjectIds, project \in ProjectInputs :
        update_project(token, project_id, project[1], project[2])

DeleteProject ==
    \E token \in Presentable, project_id \in ProjectIds : delete_project(token, project_id)

SetRole == \E u \in users, role \in Roles : StorageSetRole(u, role)

DeleteUser == \E u \in users : StorageDeleteUser(u)

SetPassword == \E u \in users : StorageSetPassword(u)

(***************************************************************************)
(* Spec: the service running against a database that holds two users.      *)
(***************************************************************************)
Init == Start(SeedUsers)

Login ==
    \E username \in Usernames, password \in {PwValid, PwEight}, keep \in BOOLEAN :
        login(username, password, keep)

Next ==
    \/ Login
    \/ GetProjects
    \/ CreateProject
    \/ GetProject
    \/ UpdateProject
    \/ DeleteProject
    \/ Tick
    \/ SetRole

Spec == Init /\ [][Next]_vars

(***************************************************************************)
(* SpecCred: registration and login on an empty database.                  *)
(***************************************************************************)
InitCred == Start({})

RegisterCred ==
    \E username \in {"alice", ""}, password \in PasswordInputs,
       role \in RoleInputs, salt \in Salts :
        register(username, password, role, salt)

LoginCred ==
    \E username \in UsernameInputs, password \in LoginPasswords :
        login(username, password, FALSE)

NextCred ==
    \/ RegisterCred
    \/ LoginCred
    \/ SetPassword

SpecCred == InitCred /\ [][NextCred]_vars

(***************************************************************************)
(* SpecAuth: authentication and the gates, under a moving clock, a         *)
(* changing secret and a changing users table.  No project is stored, so   *)
(* the admin-only route that runs is the one that needs no body.           *)
(***************************************************************************)
InitAuth == Start(SeedUsers)

RegisterAuth ==
    \E username \in Usernames, role \in Roles : register(username, PwValid, role, 1)

LoginAuth ==
    \E username \in Usernames, password \in {PwValid, PwEight} :
        login(username, password, TRUE)

Issue == \E data \in DataInputs, expires_delta \in DeltaInputs : issue(data, expires_delta)

GetProjectsAuth == \E token \in PresentableAuth : get_projects(token)

DeleteProjectAuth == \E token \in PresentableAuth : delete_project(token, 1)

NextAuth ==
    \/ RegisterAuth
    \/ LoginAuth
    \/ Issue
    \/ GetProjectsAuth
    \/ DeleteProjectAuth
    \/ Tick
    \/ RotateSecret
    \/ SetRole
    \/ DeleteUser

SpecAuth == InitAuth /\ [][NextAuth]_vars

(***************************************************************************)
(*                              Properties                                 *)
(***************************************************************************)

\* the five conditions of the password policy, stated together
MeetsPolicy(password) ==
    /\ Len(password) >= 8
    /\ \E i \in 1..Len(password) : password[i] \in Lower
    /\ \E i \in 1..Len(password) : password[i] \in Upper
    /\ \E i \in 1..Len(password) : password[i] \in Digit
    /\ \E i \in 1..Len(password) : password[i] \in Special

\* the password a stored hash was made from is one the policy accepts
StoredHashesAreOfStrongPasswords ==
    \A u \in users :
        u.password.scheme = "bcrypt" => MeetsPolicy(u.password.digest.of)

C8_MalformedHashIs401 ==
    (/\ last.op = "login"
     /\ last.username # ""
     /\ last.password # PwEmpty
     /\ \E u \in users : u.username = last.username /\ u.password = MalformedHash)
    => /\ verify_password(last.password, MalformedHash) = "false"
       /\ last.status = 401
       /\ last.body = Garbage

(***************************************************************************)
(* Authentication and the gates.                                           *)
(***************************************************************************)
\* the rows the subject claim of a token names
Principal(t) ==
    {u \in users : "sub" \in DOMAIN t.payload /\ ToString(u.id) = t.payload.sub}

\* the terminal state a request with token t must end in at a gate
Expected(t, allowed) ==
    IF decode_access_token(t) = None \/ Principal(t) = {} THEN "Unauthenticated"
    ELSE IF \E u \in Principal(t) : u.role \in allowed THEN "Authorized"
    ELSE "Forbidden"

\* the terminal state a dependency result stands for
Outcome(dep) ==
    IF dep.ok THEN "Authorized"
    ELSE IF dep.status = 401 THEN "Unauthenticated"
    ELSE IF dep.status = 403 THEN "Forbidden"
    ELSE "none"

\* the terminal state a response status stands for
Terminal(status) ==
    IF status = 401 THEN "Unauthenticated"
    ELSE IF status = 403 THEN "Forbidden"
    ELSE "Authorized"

AdminOps == {"create_project", "update_project", "delete_project"}
ReadOps == {"get_projects", "get_project"}

C3_AuthenticateRequest ==
    /\ \A t \in PresentableAuth :
        LET payload == decode_access_token(t)
            dep == get_current_user(t)
        IN  /\ dep.ok <=> /\ payload # None
                          /\ "sub" \in DOMAIN payload
                          /\ \E u \in users : ToString(u.id) = payload.sub
            /\ ~dep.ok => dep.status = 401 /\ dep.user = NoUser
            /\ dep.ok => dep.user \in users /\ ToString(dep.user.id) = payload.sub
    /\ (last.op \in ReadOps /\ Principal(last.token) = {}) => last.status = 401

\* the token of a login, still signed and unexpired, got 401 once its user was
\* gone from the table
C3_Witness ==
    /\ last.op = "get_projects"
    /\ last.status = 401
    /\ last.token = bearer
    /\ decode_access_token(bearer) # None
    /\ {"sub", "role"} \subseteq DOMAIN bearer.payload
    /\ Principal(bearer) = {}

(***************************************************************************)
(* Tokens.                                                                 *)
(***************************************************************************)
\* t was signed by this process with the secret it holds now
SignedWithCurrentSecret(t) ==
    /\ t.fmt = "jwt"
    /\ t.alg = ALGORITHM
    /\ t.sig = Sign(secret, ALGORITHM, t.payload)

\* the token just issued expires at the time of issue plus its time-to-live
ExpiryIsIssueTimePlusTtl ==
    /\ last.op = "issue" =>
           last.body.payload.exp =
               now + (IF last.delta.given THEN last.delta.minutes
                      ELSE ACCESS_TOKEN_EXPIRE_MINUTES)
    /\ (last.op = "login" /\ last.status = 200) =>
           last.body.payload.exp = now + ACCESS_TOKEN_EXPIRE_MINUTES

\* under the secret it was signed with, a token is accepted before its expiry
\* and rejected after it
AcceptedUntilExpiry ==
    SignedWithCurrentSecret(bearer) =>
        /\ now < bearer.payload.exp => decode_access_token(bearer) = bearer.payload
        /\ now > bearer.payload.exp => decode_access_token(bearer) = None
        /\ (last.op = "get_projects" /\ last.token = bearer /\ now > bearer.payload.exp)
               => last.status = 401

\* C4: a token issued at time t with time-to-live d expires at t+d; while the
\* secret is unchanged verify accepts it at every time before t+d and rejects
\* it at every time after.
C4_ExpiryAtIssuePlusTtl == ExpiryIsIssueTimePlusTtl /\ AcceptedUntilExpiry

\* C5: verify accepts only tokens signed with the secret the process holds:
\* a token signed with another key, or under a secret since rotated away, is
\* rejected, and a token issued under the current secret is accepted until it
\* expires.
C5_OnlyCurrentSecret ==
    /\ \A t \in PresentableAuth :
        /\ decode_access_token(t) # None => t.sig = Sign(secret, ALGORITHM, t.payload)
        /\ t.sig.key # secret =>
            /\ decode_access_token(t) = None
            /\ get_current_user(t).status = 401
    /\ (SignedWithCurrentSecret(bearer) /\ now <= bearer.payload.exp)
           => decode_access_token(bearer) = bearer.payload
    /\ (last.op \in ReadOps \cup AdminOps /\ last.token.sig.key # secret) => last.status = 401

\* after a rotation, an unexpired token of a stored user, signed under the
\* previous secret, got 401
C5_Witness ==
    /\ secret = 2
    /\ last.op = "get_projects"
    /\ last.status = 401
    /\ last.token = bearer
    /\ bearer.sig = Sign(1, ALGORITHM, bearer.payload)
    /\ bearer.fmt = "jwt"
    /\ now < bearer.payload.exp
    /\ Principal(bearer) # {}

\* C6: verify right after issue returns the claims that were passed in (for a
\* login: the stringified id and the role of the user), and issue leaves the
\* caller's claim set as it was.
C6_RoundTrip ==
    /\ last.op = "issue" =>
        LET claims == decode_access_token(last.body) IN
        /\ claims # None
        /\ DOMAIN claims = (DOMAIN last.given) \cup {"exp"}
        /\ \A k \in DOMAIN last.given : claims[k] = last.given[k]
        /\ last.after = last.given
    /\ (last.op = "login" /\ last.status = 200) =>
        LET claims == decode_access_token(last.body) IN
        /\ claims # None
        /\ last.user \in users
        /\ claims.sub = ToString(last.user.id)
        /\ claims.role = last.user.role
        /\ get_current_user(last.body).ok
        /\ get_current_user(last.body).user = last.user

\* a login just returned a token and a direct issue has happened before it
C6_Witness ==
    /\ last.op = "login"
    /\ last.status = 200
    /\ last.user.role = "user"
    /\ decode_access_token(last.body) # None
    /\ decode_access_token(last.body).sub = "2"

\* C7: verify returns the claims or the invalid sentinel, and returns the
\* sentinel for a malformed string, a signature that does not match, a past
\* expiry, and a token without the subject or the role claim.
C7_InvalidOnMissingClaims ==
    \A t \in PresentableAuth :
        LET claims == decode_access_token(t) IN
        /\ claims = None \/ claims = t.payload
        /\ t.fmt # "jwt" => claims = None
        /\ t.sig # Sign(secret, t.alg, t.payload) => claims = None
        /\ t.payload.exp < now => claims = None
        /\ ~({"sub", "role"} \subseteq DOMAIN t.payload) => claims = None

\* C7 without the missing-claims case: what verify does reject
C7_InvalidOnBadTokens ==
    \A t \in PresentableAuth :
        LET claims == decode_access_token(t) IN
        /\ claims = None \/ claims = t.payload
        /\ t.fmt # "jwt" => claims = None
        /\ t.sig # Sign(secret, t.alg, t.payload) => claims = None
        /\ t.payload.exp < now => claims = None

\* once verify has rejected the token the client holds, it rejects it at every
\* later time
RejectedStaysRejected ==
    [][(bearer' = bearer /\ decode_access_token(bearer) = None)
           => decode_access_token(bearer)' = None]_vars

(***************************************************************************)
(* Roles and the project store.                                            *)
(***************************************************************************)
\* C2: the admin-only gate decides by the role stored for the principal at
\* the time of the request, never by the role claim of the token.
C2_StoredRoleDecides ==
    /\ \A t \in Presentable :
        (decode_access_token(t) # None /\ Principal(t) # {}) =>
            (require_admin(t).ok <=> \A u \in Principal(t) : u.role = "admin")
    /\ (last.op \in AdminOps /\ last.status # 401) =>
        /\ last.user \in Principal(last.token)
        /\ last.status = 403 <=> last.user.role # "admin"

\* an unexpired token issued to an admin got 403 after the stored role became
\* "user"
C2_Witness ==
    /\ last.op \in AdminOps
    /\ last.status = 403
    /\ last.token = bearer
    /\ SignedWithCurrentSecret(bearer)
    /\ now < bearer.payload.exp
    /\ bearer.payload.role = "admin"
    /\ last.user.role = "user"

\* C10: a step changes the project store only if it is a create, update or
\* delete request that passed the admin-only gate with a verified token whose
\* principal is stored with role admin; requests ending 401 or 403 and read
\* requests change nothing; a created project has its creator as owner.
C10_OnlyAdminsChangeProjects ==
    [][/\ projects' # projects =>
            /\ last'.op \in AdminOps
            /\ last'.status \in {200, 201, 204}
            /\ last'.roleChecked
            /\ decode_access_token(last'.token) # None
            /\ last'.user \in users
            /\ last'.user \in Principal(last'.token)
            /\ last'.user.role = "admin"
       /\ (last'.op \in AdminOps /\ last'.status \in {401, 403}) => projects' = projects
       /\ last'.op \in ReadOps => projects' = projects
       /\ (last'.op = "create_project" /\ last'.status = 201) =>
            \E p \in projects' :
                /\ p \notin projects
                /\ projects' = projects \cup {p}
                /\ p.id = last'.pid
                /\ p.user_id = last'.user.id
      ]_vars

\* an admin has just created a project and is stored as its owner
C10_Witness ==
    /\ last.op = "create_project"
    /\ last.status = 201
    /\ last.user.role = "admin"
    /\ \E p \in projects : p.id = last.pid /\ p.user_id = last.user.id

====
